---- MODULE Spec2Model ----
(***************************************************************************)
(* Model of the links-client Python package: the flat link API (ILinks),   *)
(* the recursive builder and the Links notation (RecursiveLinks), over the *)
(* link store (LinkDBService).                                             *)
(***************************************************************************)
EXTENDS Integers, Sequences, FiniteSets, TLC

VARIABLES db, pre, last, seen, calls

vars == <<db, pre, last, seen, calls>>

(***************************************************************************)
(* Bounds of the model.                                                    *)
(***************************************************************************)
\* ids the store hands out in the flat-API specification
MaxLinks == 2

\* links the store may hold when a builder call begins
MaxBefore == 1

\* length of the lists handed to the builder
MaxSeq == 3

\* size (ints plus lists) of the nested lists that are rendered
MaxSize == 5

\* length of the texts that are parsed
MaxText == 5

\* values of the id field of a restriction: ANY, and two ids
IdVals == {0, 1, 2}

\* values of substitution elements (the sources and targets stored) and of
\* the source and target fields of a restriction: 0 (ANY) and 1
SubVals == {0, 1}

(***************************************************************************)
(* Python values.                                                          *)
(***************************************************************************)
\* an Optional[List[int]] argument: None, or a list
None == [given |-> FALSE, items |-> <<>>]

Some(xs) == [given |-> TRUE, items |-> xs]

\* `not x` for an Optional[List]: None and the empty list are falsy
Falsy(arg) == ~arg.given \/ Len(arg.items) = 0

SeqsUpTo(S, n) == UNION {[1..k -> S] : k \in 0..n}

\* no exception was raised
NoError == "none"

(***************************************************************************)
(* LinkConstants.                                                          *)
(***************************************************************************)
ANY == 0

CONTINUE == "continue"

BREAK == "break"

(***************************************************************************)
(* LinkDBService: the external store. readAllLinks / createLink /          *)
(* updateLink / deleteLink over an ordered sequence of links; createLink   *)
(* hands out a fresh id.                                                   *)
(***************************************************************************)
Link(i, s, t) == [id |-> i, source |-> s, target |-> t]

EmptyDb == [links |-> <<>>, nextId |-> 1]

read_all_links(d) == d.links

create_link(d, source, target) ==
    LET link == Link(d.nextId, source, target)
    IN  [db |-> [links |-> Append(d.links, link), nextId |-> d.nextId + 1],
         link |-> link]

update_link(d, id, source, target) ==
    LET link == Link(id, source, target)
    IN  [db |-> [d EXCEPT !.links =
                    [i \in 1..Len(d.links) |->
                        IF d.links[i].id = id THEN link ELSE d.links[i]]],
         link |-> link]

delete_link(d, id) ==
    [d EXCEPT !.links = SelectSeq(d.links, LAMBDA l : l.id # id)]

(***************************************************************************)
(* ILinks.                                                                 *)
(***************************************************************************)
\* the outcome of an ILinks call: the store after it, the value returned,
\* the exception raised (NoError if none) and the handler's calls in order
Outcome(d, ret, err, changes) ==
    [db |-> d, ret |-> ret, err |-> err, changes |-> changes]

Raise(d, err) == Outcome(d, 0, err, <<>>)

\* a Change passed to a handler; before/after are <<>> for None, <<link>> else
Change(before, after) == [before |-> before, after |-> after]

\* _filter_links with the wildcard forgotten on the target of [id, source, target]
_filter_links_no_any(links, restriction) ==
    IF Falsy(restriction) THEN links
    ELSE LET r == restriction.items
         IN  SelectSeq(links, LAMBDA link :
                IF Len(r) = 1 THEN
                    r[1] = ANY \/ link.id = r[1]
                ELSE IF Len(r) = 2 THEN
                    /\ (r[1] = ANY \/ link.source = r[1])
                    /\ (r[2] = ANY \/ link.target = r[2])
                ELSE
                    /\ (r[1] = ANY \/ link.id = r[1])
                    /\ (r[2] = ANY \/ link.source = r[2])
                    /\ link.target = r[3])

_filter_links(links, restriction) ==
    IF Falsy(restriction) THEN links
    ELSE LET r == restriction.items
         IN  SelectSeq(links, LAMBDA link :
                IF Len(r) = 1 THEN
                    r[1] = ANY \/ link.id = r[1]
                ELSE IF Len(r) = 2 THEN
                    /\ (r[1] = ANY \/ link.source = r[1])
                    /\ (r[2] = ANY \/ link.target = r[2])
                ELSE
                    /\ (r[1] = ANY \/ link.id = r[1])
                    /\ (r[2] = ANY \/ link.source = r[2])
                    /\ (r[3] = ANY \/ link.target = r[3]))

count(d, restriction) ==
    LET all_links == read_all_links(d)
    IN  IF Falsy(restriction) THEN Len(all_links)
        ELSE Len(_filter_links(all_links, restriction))

\* the visitor of the tests: it counts its calls and answers BREAK on call
\* number breakAt (never, when breakAt = 0), CONTINUE before
visitor(breakAt, call) == IF call = breakAt THEN BREAK ELSE CONTINUE

RECURSIVE each_loop(_, _, _, _)
each_loop(filtered, i, breakAt, visited) ==
    IF i > Len(filtered) THEN [ret |-> CONTINUE, visited |-> visited]
    ELSE LET result == visitor(breakAt, i)
         IN  IF result = BREAK
             THEN [ret |-> BREAK, visited |-> Append(visited, filtered[i])]
             ELSE each_loop(filtered, i + 1, breakAt, Append(visited, filtered[i]))

\* each with the visitor's BREAK not propagated to the caller
each_swallow_break(d, restriction, handler, breakAt) ==
    LET all_links == read_all_links(d)
        filtered == _filter_links(all_links, restriction)
    IN  IF ~handler THEN [ret |-> CONTINUE, visited |-> <<>>]
        ELSE [ret |-> CONTINUE,
              visited |-> each_loop(filtered, 1, breakAt, <<>>).visited]

each(d, restriction, handler, breakAt) ==
    LET all_links == read_all_links(d)
        filtered == _filter_links(all_links, restriction)
    IN  IF ~handler THEN [ret |-> CONTINUE, visited |-> <<>>]
        ELSE each_loop(filtered, 1, breakAt, <<>>)

\* create with source and target exchanged
create_swapped(d, substitution, handler) ==
    IF Falsy(substitution) \/ Len(substitution.items) < 2
    THEN Raise(d, "Substitution must contain at least [source, target]")
    ELSE LET source == substitution.items[1]
             target == substitution.items[2]
             r == create_link(d, target, source)
         IN  Outcome(r.db, r.link.id, NoError,
                     IF handler THEN <<Change(<<>>, <<r.link>>)>> ELSE <<>>)

create(d, substitution, handler) ==
    IF Falsy(substitution) \/ Len(substitution.items) < 2
    THEN Raise(d, "Substitution must contain at least [source, target]")
    ELSE LET source == substitution.items[1]
             target == substitution.items[2]
             r == create_link(d, source, target)
         IN  Outcome(r.db, r.link.id, NoError,
                     IF handler THEN <<Change(<<>>, <<r.link>>)>> ELSE <<>>)

\* update taking elements 0 and 1 of every substitution, as create does
update_first_two(d, restriction, substitution, handler) ==
    IF Falsy(restriction)
    THEN Raise(d, "Restriction required for update")
    ELSE IF Falsy(substitution) \/ Len(substitution.items) < 2
    THEN Raise(d, "Substitution must contain at least [source, target]")
    ELSE LET all_links == read_all_links(d)
             filtered == _filter_links(all_links, restriction)
         IN  IF Len(filtered) = 0
             THEN Raise(d, "No links found matching restriction")
             ELSE LET link_to_update == filtered[1]
                      s == substitution.items
                      r == update_link(d, link_to_update.id, s[1], s[2])
                  IN  Outcome(r.db, r.link.id, NoError,
                              IF handler
                              THEN <<Change(<<link_to_update>>, <<r.link>>)>>
                              ELSE <<>>)

update(d, restriction, substitution, handler) ==
    IF Falsy(restriction)
    THEN Raise(d, "Restriction required for update")
    ELSE IF Falsy(substitution) \/ Len(substitution.items) < 2
    THEN Raise(d, "Substitution must contain at least [source, target]")
    ELSE LET all_links == read_all_links(d)
             filtered == _filter_links(all_links, restriction)
         IN  IF Len(filtered) = 0
             THEN Raise(d, "No links found matching restriction")
             ELSE LET link_to_update == filtered[1]
                      s == substitution.items
                      new_source == IF Len(s) = 2 THEN s[1] ELSE s[2]
                      new_target == IF Len(s) = 2 THEN s[2] ELSE s[3]
                      before == link_to_update
                      r == update_link(d, link_to_update.id, new_source, new_target)
                      updated == r.link
                  IN  Outcome(r.db, updated.id, NoError,
                              IF handler THEN <<Change(<<before>>, <<updated>>)>>
                              ELSE <<>>)

\* delete without the check that a restriction is given
delete_unchecked(d, restriction, handler) ==
    LET all_links == read_all_links(d)
        filtered == _filter_links(all_links, restriction)
    IN  IF Len(filtered) = 0
        THEN Raise(d, "No links found matching restriction")
        ELSE LET link_to_delete == filtered[1]
             IN  Outcome(delete_link(d, link_to_delete.id),
                         link_to_delete.id, NoError,
                         IF handler THEN <<Change(<<link_to_delete>>, <<>>)>>
                         ELSE <<>>)

\* delete removing the last matching link instead of the first
delete_last_match(d, restriction, handler) ==
    IF Falsy(restriction)
    THEN Raise(d, "Restriction required for delete")
    ELSE LET all_links == read_all_links(d)
             filtered == _filter_links(all_links, restriction)
         IN  IF Len(filtered) = 0
             THEN Raise(d, "No links found matching restriction")
             ELSE LET link_to_delete == filtered[Len(filtered)]
                  IN  Outcome(delete_link(d, link_to_delete.id),
                              link_to_delete.id, NoError,
                              IF handler THEN <<Change(<<link_to_delete>>, <<>>)>>
                              ELSE <<>>)

delete(d, restriction, handler) ==
    IF Falsy(restriction)
    THEN Raise(d, "Restriction required for delete")
    ELSE LET all_links == read_all_links(d)
             filtered == _filter_links(all_links, restriction)
         IN  IF Len(filtered) = 0
             THEN Raise(d, "No links found matching restriction")
             ELSE LET link_to_delete == filtered[1]
                      before == link_to_delete
                  IN  Outcome(delete_link(d, link_to_delete.id),
                              link_to_delete.id, NoError,
                              IF handler THEN <<Change(<<before>>, <<>>)>>
                              ELSE <<>>)

\* update up to its read of the store (the checks, read_all_links and the
\* filter): the exception raised, or the link located, as <<link>>
update_locate(d, restriction, substitution) ==
    IF Falsy(restriction)
    THEN [err |-> "Restriction required for update", link |-> <<>>]
    ELSE IF Falsy(substitution) \/ Len(substitution.items) < 2
    THEN [err |-> "Substitution must contain at least [source, target]",
          link |-> <<>>]
    ELSE LET all_links == read_all_links(d)
             filtered == _filter_links(all_links, restriction)
         IN  IF Len(filtered) = 0
             THEN [err |-> "No links found matching restriction", link |-> <<>>]
             ELSE [err |-> NoError, link |-> <<filtered[1]>>]

\* update from its call of update_link on, with 'before' taken from the
\* store at that moment instead of from the link located earlier
update_mutate_fresh_before(d, link_to_update, substitution, handler) ==
    LET s == substitution.items
        new_source == IF Len(s) = 2 THEN s[1] ELSE s[2]
        new_target == IF Len(s) = 2 THEN s[2] ELSE s[3]
        before == SelectSeq(d.links, LAMBDA l : l.id = link_to_update.id)
        r == update_link(d, link_to_update.id, new_source, new_target)
        updated == r.link
    IN  Outcome(r.db, updated.id, NoError,
                IF handler THEN <<Change(before, <<updated>>)>> ELSE <<>>)

\* update from its call of update_link on, d being the store at that moment
update_mutate(d, link_to_update, substitution, handler) ==
    LET s == substitution.items
        new_source == IF Len(s) = 2 THEN s[1] ELSE s[2]
        new_target == IF Len(s) = 2 THEN s[2] ELSE s[3]
        before == link_to_update
        r == update_link(d, link_to_update.id, new_source, new_target)
        updated == r.link
    IN  Outcome(r.db, updated.id, NoError,
                IF handler THEN <<Change(<<before>>, <<updated>>)>> ELSE <<>>)

\* delete up to its read of the store
delete_locate(d, restriction) ==
    IF Falsy(restriction)
    THEN [err |-> "Restriction required for delete", link |-> <<>>]
    ELSE LET all_links == read_all_links(d)
             filtered == _filter_links(all_links, restriction)
         IN  IF Len(filtered) = 0
             THEN [err |-> "No links found matching restriction", link |-> <<>>]
             ELSE [err |-> NoError, link |-> <<filtered[1]>>]

\* delete from its call of delete_link on, d being the store at that moment
delete_mutate(d, link_to_delete, handler) ==
    LET before == link_to_delete
    IN  Outcome(delete_link(d, link_to_delete.id), link_to_delete.id, NoError,
                IF handler THEN <<Change(<<before>>, <<>>)>> ELSE <<>>)

(***************************************************************************)
(* Nested Python values: an int, a list of values, or a dict from labels   *)
(* to values (in insertion order).                                         *)
(***************************************************************************)
PyInt(n) == [kind |-> "int", val |-> n, items |-> <<>>, keys |-> <<>>]

PyList(xs) == [kind |-> "list", val |-> 0, items |-> xs, keys |-> <<>>]

PyDict(ks, vs) == [kind |-> "dict", val |-> 0, items |-> vs, keys |-> ks]

\* a str, its characters in keys
PyStr(chars) == [kind |-> "str", val |-> 0, items |-> <<>>, keys |-> chars]

\* what the store is handed for a source or target that is no int
NonInteger == -1

\* the source or target handed to ILinks.create for a value
ValueOf(v) == IF v.kind = "int" THEN v.val ELSE NonInteger

(***************************************************************************)
(* RecursiveLinks: the builder.                                            *)
(***************************************************************************)
\* the outcome of a builder call: the store after it, the value returned,
\* the reference map as the call leaves it, the exception raised
Built(d, ret, refs, err) == [db |-> d, ret |-> ret, refs |-> refs, err |-> err]

\* a dict from labels to ids, in insertion order
EmptyMap == [keys |-> <<>>, vals |-> <<>>]

\* reference_map[ref_name] = link_id
MapSet(m, k, v) ==
    IF \E i \in 1..Len(m.keys) : m.keys[i] = k
    THEN [m EXCEPT !.vals = [i \in 1..Len(m.keys) |->
                                IF m.keys[i] = k THEN v ELSE m.vals[i]]]
    ELSE [keys |-> Append(m.keys, k), vals |-> Append(m.vals, v)]

\* reference_map.update(nested_refs), from entry i of nested_refs on
RECURSIVE MapUpdate(_, _, _)
MapUpdate(m, other, i) ==
    IF i > Len(other.keys) THEN m
    ELSE MapUpdate(MapSet(m, other.keys[i], other.vals[i]), other, i + 1)

RECURSIVE create_from_nested_list(_, _)
RECURSIVE nested_list_loop(_, _, _, _)
nested_list_loop(d, nested_list, i, link_ids) ==
    IF i > Len(nested_list) THEN Built(d, link_ids, EmptyMap, NoError)
    ELSE LET item == nested_list[i]
         IN  IF item.kind # "list"
             THEN nested_list_loop(d, nested_list, i + 1, link_ids)
             ELSE IF Len(item.items) < 2
             THEN Built(d, <<>>, EmptyMap,
                        "List items must have at least 2 elements [source, target]")
             ELSE
             LET source == item.items[1]
                 target == item.items[2]
                 rs == IF source.kind = "list"
                       THEN create_from_nested_list(d, <<source>>)
                       ELSE Built(d, <<ValueOf(source)>>, EmptyMap, NoError)
             IN  IF rs.err # NoError THEN rs
                 ELSE IF Len(rs.ret) = 0
                 THEN Built(rs.db, <<>>, EmptyMap, "IndexError")
                 ELSE
                 LET actual_source == rs.ret[1]
                     rt == IF target.kind = "list"
                           THEN create_from_nested_list(rs.db, <<target>>)
                           ELSE Built(rs.db, <<ValueOf(target)>>, EmptyMap, NoError)
                 IN  IF rt.err # NoError THEN rt
                     ELSE IF Len(rt.ret) = 0
                     THEN Built(rt.db, <<>>, EmptyMap, "IndexError")
                     ELSE
                     LET actual_target == rt.ret[1]
                         rc == create(rt.db, Some(<<actual_source, actual_target>>), FALSE)
                     IN  IF rc.err # NoError
                         THEN Built(rc.db, <<>>, EmptyMap, rc.err)
                         ELSE nested_list_loop(rc.db, nested_list, i + 1,
                                               Append(link_ids, rc.ret))

\* create_from_nested_list passing over the first item of its argument
create_from_nested_list_skip_first(d, nested_list) ==
    nested_list_loop(d, nested_list, 2, <<>>)

create_from_nested_list(d, nested_list) ==
    nested_list_loop(d, nested_list, 1, <<>>)

_has_nested_dict(lst) == \E i \in 1..Len(lst) : lst[i].kind = "dict"

RECURSIVE create_from_nested_dict(_, _)
RECURSIVE _create_sequence_from_list(_, _, _)
RECURSIVE sequence_loop(_, _, _, _, _)
\* sequence_loop chaining a nested dict without the connecting link
sequence_loop_no_link(d, lst, i, reference_map, current_id) ==
    IF i > Len(lst) THEN Built(d, current_id[1], reference_map, NoError)
    ELSE LET item == lst[i]
         IN  IF item.kind = "dict" THEN
                 LET rn == create_from_nested_dict(d, item)
                     nested_refs == rn.ret
                 IN  IF rn.err # NoError
                     THEN Built(rn.db, 0, reference_map, rn.err)
                     ELSE IF Len(nested_refs.vals) = 0
                     THEN Built(rn.db, 0, reference_map, "StopIteration")
                     ELSE
                     LET first_ref == nested_refs.vals[1]
                         rc == Outcome(rn.db, first_ref, NoError, <<>>)
                     IN  IF rc.err # NoError
                         THEN Built(rc.db, 0, reference_map, rc.err)
                         ELSE sequence_loop(rc.db, lst, i + 1,
                                            MapUpdate(reference_map, nested_refs, 1),
                                            <<rc.ret>>)
             ELSE IF item.kind = "list" THEN
                 LET rl == _create_sequence_from_list(d, item.items, reference_map)
                     nested_id == rl.ret
                 IN  IF rl.err # NoError THEN rl
                     ELSE
                     LET rc == IF current_id = <<>>
                               THEN Outcome(rl.db, nested_id, NoError, <<>>)
                               ELSE create(rl.db, Some(<<current_id[1], nested_id>>), FALSE)
                     IN  IF rc.err # NoError
                         THEN Built(rc.db, 0, rl.refs, rc.err)
                         ELSE sequence_loop(rc.db, lst, i + 1, rl.refs, <<rc.ret>>)
             ELSE
                 LET rc == IF current_id = <<>>
                           THEN Outcome(d, item.val, NoError, <<>>)
                           ELSE create(d, Some(<<current_id[1], item.val>>), FALSE)
                 IN  IF rc.err # NoError
                     THEN Built(rc.db, 0, reference_map, rc.err)
                     ELSE sequence_loop(rc.db, lst, i + 1, reference_map, <<rc.ret>>)

\* current_id is <<>> for None, <<id>> else
sequence_loop(d, lst, i, reference_map, current_id) ==
    IF i > Len(lst) THEN Built(d, current_id[1], reference_map, NoError)
    ELSE LET item == lst[i]
         IN  IF item.kind = "dict" THEN
                 LET rn == create_from_nested_dict(d, item)
                     nested_refs == rn.ret
                 IN  IF rn.err # NoError
                     THEN Built(rn.db, 0, reference_map, rn.err)
                     ELSE IF Len(nested_refs.vals) = 0
                     THEN Built(rn.db, 0, reference_map, "StopIteration")
                     ELSE
                     LET first_ref == nested_refs.vals[1]
                         rc == IF current_id = <<>>
                               THEN Outcome(rn.db, first_ref, NoError, <<>>)
                               ELSE create(rn.db, Some(<<current_id[1], first_ref>>), FALSE)
                     IN  IF rc.err # NoError
                         THEN Built(rc.db, 0, reference_map, rc.err)
                         ELSE sequence_loop(rc.db, lst, i + 1,
                                            MapUpdate(reference_map, nested_refs, 1),
                                            <<rc.ret>>)
             ELSE IF item.kind = "list" THEN
                 LET rl == _create_sequence_from_list(d, item.items, reference_map)
                     nested_id == rl.ret
                 IN  IF rl.err # NoError THEN rl
                     ELSE
                     LET rc == IF current_id = <<>>
                               THEN Outcome(rl.db, nested_id, NoError, <<>>)
                               ELSE create(rl.db, Some(<<current_id[1], nested_id>>), FALSE)
                     IN  IF rc.err # NoError
                         THEN Built(rc.db, 0, rl.refs, rc.err)
                         ELSE sequence_loop(rc.db, lst, i + 1, rl.refs, <<rc.ret>>)
             ELSE
                 LET rc == IF current_id = <<>>
                           THEN Outcome(d, item.val, NoError, <<>>)
                           ELSE create(d, Some(<<current_id[1], item.val>>), FALSE)
                 IN  IF rc.err # NoError
                     THEN Built(rc.db, 0, reference_map, rc.err)
                     ELSE sequence_loop(rc.db, lst, i + 1, reference_map, <<rc.ret>>)

\* _create_sequence_from_list taking the base case for a list of any length
_create_sequence_pair_only(d, lst, reference_map) ==
    IF Len(lst) = 0
    THEN Built(d, 0, reference_map, "Cannot create sequence from empty list")
    ELSE IF Len(lst) >= 2 /\ ~_has_nested_dict(lst)
    THEN LET source == lst[1]
             target == lst[2]
             rc == create(d, Some(<<ValueOf(source), ValueOf(target)>>), FALSE)
         IN  Built(rc.db, rc.ret, reference_map, rc.err)
    ELSE sequence_loop(d, lst, 1, reference_map, <<>>)

_create_sequence_from_list(d, lst, reference_map) ==
    IF Len(lst) = 0
    THEN Built(d, 0, reference_map, "Cannot create sequence from empty list")
    ELSE IF Len(lst) = 2 /\ ~_has_nested_dict(lst)
    THEN LET source == lst[1]
             target == lst[2]
             rc == create(d, Some(<<ValueOf(source), ValueOf(target)>>), FALSE)
         IN  Built(rc.db, rc.ret, reference_map, rc.err)
    ELSE sequence_loop(d, lst, 1, reference_map, <<>>)

RECURSIVE nested_dict_loop(_, _, _, _)
nested_dict_loop(d, nested_dict, i, reference_map) ==
    IF i > Len(nested_dict.keys) THEN Built(d, reference_map, reference_map, NoError)
    ELSE LET ref_name == nested_dict.keys[i]
             value == nested_dict.items[i]
         IN  IF value.kind = "list"
             THEN LET r == _create_sequence_from_list(d, value.items, reference_map)
                      link_id == r.ret
                  IN  IF r.err # NoError
                      THEN Built(r.db, EmptyMap, r.refs, r.err)
                      ELSE nested_dict_loop(r.db, nested_dict, i + 1,
                                            MapSet(r.refs, ref_name, link_id))
             ELSE nested_dict_loop(d, nested_dict, i + 1, reference_map)

create_from_nested_dict(d, nested_dict) ==
    nested_dict_loop(d, nested_dict, 1, EmptyMap)

\* the calls of the handler of read_as_nested_list, from the i-th link that
\* each visits on: a link whose id is not in visited is appended as
\* [source, target]; the handler always answers CONTINUE
RECURSIVE read_handler_loop(_, _, _, _)
read_handler_loop(links, i, result, visited) ==
    IF i > Len(links) THEN result
    ELSE LET link == links[i]
         IN  IF link.id \notin visited
             THEN read_handler_loop(links, i + 1,
                                    Append(result, <<link.source, link.target>>),
                                    visited \cup {link.id})
             ELSE read_handler_loop(links, i + 1, result, visited)

\* read_as_nested_list passing no restriction on to each
read_as_nested_list_unrestricted(d, restriction) ==
    read_handler_loop(each(d, None, TRUE, 0).visited, 1, <<>>, {})

read_as_nested_list(d, restriction) ==
    read_handler_loop(each(d, restriction, TRUE, 0).visited, 1, <<>>, {})

(***************************************************************************)
(* Python strings, as sequences of one-character strings.                  *)
(***************************************************************************)
Digits == <<"0", "1", "2", "3", "4", "5", "6", "7", "8", "9">>

IsDigit(c) == \E d \in 1..Len(Digits) : Digits[d] = c

DigitValue(c) == (CHOOSE d \in 1..Len(Digits) : Digits[d] = c) - 1

\* str(n) of a natural number
RECURSIVE str_nat(_)
str_nat(n) ==
    IF n < Len(Digits) THEN <<Digits[n + 1]>>
    ELSE Append(str_nat(n \div Len(Digits)), Digits[(n % Len(Digits)) + 1])

\* str(n) of an int
str(n) == IF n < 0 THEN <<"-">> \o str_nat(-n) ELSE str_nat(n)

RECURSIVE lstrip(_)
lstrip(s) == IF Len(s) > 0 /\ s[1] = " " THEN lstrip(Tail(s)) ELSE s

RECURSIVE rstrip(_)
rstrip(s) ==
    IF Len(s) > 0 /\ s[Len(s)] = " " THEN rstrip(SubSeq(s, 1, Len(s) - 1)) ELSE s

strip(s) == rstrip(lstrip(s))

\* the digits of an int literal: the literal without its sign
Unsigned(t) == IF Len(t) > 0 /\ t[1] \in {"-", "+"} THEN Tail(t) ELSE t

\* int(s) does not raise ValueError: blanks, an optional sign, digits, blanks
IsIntLiteral(s) ==
    LET body == Unsigned(strip(s))
    IN  Len(body) > 0 /\ \A i \in 1..Len(body) : IsDigit(body[i])

RECURSIVE int_nat(_)
int_nat(ds) ==
    IF Len(ds) = 0 THEN 0
    ELSE int_nat(SubSeq(ds, 1, Len(ds) - 1)) * Len(Digits) + DigitValue(ds[Len(ds)])

\* int(s) of an int literal
int(s) ==
    LET t == strip(s)
    IN  IF t[1] = "-" THEN 0 - int_nat(Unsigned(t)) ELSE int_nat(Unsigned(t))

(***************************************************************************)
(* RecursiveLinks: the Links notation.                                     *)
(***************************************************************************)
\* convert(item) of to_links_notation, for ints and lists; join_converted is
\* ' '.join(convert(el) for el in items), from element i on
RECURSIVE convert(_)
RECURSIVE join_converted(_, _)
join_converted(items, i) ==
    IF i > Len(items) THEN <<>>
    ELSE IF i = Len(items) THEN convert(items[i])
    ELSE convert(items[i]) \o <<" ">> \o join_converted(items, i + 1)

\* str(item): of a str the str itself, of an int its decimal digits
str_of(item) == IF item.kind = "str" THEN item.keys ELSE str(item.val)

convert(item) ==
    IF item.kind = "list"
    THEN <<"(">> \o join_converted(item.items, 1) \o <<")">>
    ELSE str_of(item)

to_links_notation(nested_list) ==
    <<"(">> \o join_converted(nested_list, 1) \o <<")">>

\* the outcome of a parse: the list returned, the exception raised
Parsed(ret, err) == [ret |-> ret, err |-> err]

\* the flush of the token buffer taking only runs of digits for ints
FlushToken_digits_only(result, current) ==
    IF Len(strip(current)) > 0
        /\ \A i \in 1..Len(strip(current)) : IsDigit(strip(current)[i])
    THEN Append(result, PyInt(int(strip(current))))
    ELSE result

\* the flush of the token buffer appending 0 for a token that is no int
FlushToken_zero_for_malformed(result, current) ==
    IF IsIntLiteral(strip(current))
    THEN Append(result, PyInt(int(strip(current))))
    ELSE Append(result, PyInt(0))

\* the flush of the token buffer: an int literal is appended, anything else
\* is dropped
FlushToken(result, current) ==
    IF IsIntLiteral(strip(current))
    THEN Append(result, PyInt(int(strip(current))))
    ELSE result

\* the scan of parse_links_notation from character i on. self is the
\* stripped argument of this call when its outer parentheses were not
\* removed, and <<>> when they were: a parenthesized substring equal to self
\* is parsed by a call with the same argument, without end (RecursionError).
RECURSIVE parse_links_notation(_)
RECURSIVE parse_scan(_, _, _, _, _, _)
parse_scan(notation, i, result, current, depth, self) ==
    IF i > Len(notation)
    THEN Parsed(IF strip(current) # <<>> THEN FlushToken(result, current) ELSE result,
                NoError)
    ELSE LET char == notation[i]
         IN  IF char = "("
             THEN parse_scan(notation, i + 1, result, Append(current, char),
                             depth + 1, self)
             ELSE IF char = ")"
             THEN IF depth - 1 = 0 /\ strip(Append(current, char)) # <<>>
                  THEN IF strip(Append(current, char)) = self
                       THEN Parsed(<<>>, "RecursionError")
                       ELSE LET r == parse_links_notation(strip(Append(current, char)))
                            IN  IF r.err # NoError THEN r
                                ELSE parse_scan(notation, i + 1,
                                                Append(result, PyList(r.ret)),
                                                <<>>, depth - 1, self)
                  ELSE parse_scan(notation, i + 1, result, Append(current, char),
                                  depth - 1, self)
             ELSE IF char = " " /\ depth = 0
             THEN IF strip(current) # <<>>
                  THEN parse_scan(notation, i + 1, FlushToken(result, current),
                                  <<>>, depth, self)
                  ELSE parse_scan(notation, i + 1, result, current, depth, self)
             ELSE parse_scan(notation, i + 1, result, Append(current, char),
                             depth, self)

parse_links_notation(notation) ==
    LET stripped == strip(notation)
        wrapped == /\ Len(stripped) > 0
                   /\ stripped[1] = "("
                   /\ stripped[Len(stripped)] = ")"
        inner == IF wrapped
                 THEN strip(SubSeq(stripped, 2, Len(stripped) - 1))
                 ELSE stripped
    IN  parse_scan(inner, 1, <<>>, <<>>, 0, IF wrapped THEN <<>> ELSE stripped)

\* convert(item, ref_name) of to_links_notation_with_refs. ref_name is <<>>
\* for None and <<label>> else; a label is a string of one character.
\* join_with_refs is ' '.join(...) from element i on: over
\* convert(val, ref) for the entries of a dict (refs are its keys), over
\* convert(el) for the elements of a list (refs is <<>>).
RECURSIVE convert_with_refs(_, _)
RECURSIVE join_with_refs(_, _, _)
join_with_refs(items, refs, i) ==
    LET ref_name == IF refs = <<>> THEN <<>> ELSE <<refs[i]>>
    IN  IF i > Len(items) THEN <<>>
        ELSE IF i = Len(items) THEN convert_with_refs(items[i], ref_name)
        ELSE convert_with_refs(items[i], ref_name) \o <<" ">>
                \o join_with_refs(items, refs, i + 1)

convert_with_refs(item, ref_name) ==
    IF item.kind = "dict"
    THEN join_with_refs(item.items, item.keys, 1)
    ELSE IF item.kind = "list"
    THEN LET inner == join_with_refs(item.items, <<>>, 1)
         IN  IF ref_name # <<>> /\ ref_name[1] # ""
             THEN <<"(", ref_name[1], ":", " ">> \o inner \o <<")">>
             ELSE <<"(">> \o inner \o <<")">>
    ELSE str(item.val)

to_links_notation_with_refs(nested_dict) ==
    <<"(">> \o join_with_refs(nested_dict.items, nested_dict.keys, 1) \o <<")">>

(***************************************************************************)
(* The flat-API specification: one caller issuing ILinks calls.            *)
(***************************************************************************)
\* restrictions of arity 0..3 ([id], [source, target], [id, source, target]),
\* None, and two of arity 4
Restrictions ==
    {None, Some(<<>>)}
        \cup {Some(<<i>>) : i \in IdVals}
        \cup {Some(<<s, t>>) : s, t \in SubVals}
        \cup {Some(<<i, s, t>>) : i \in IdVals, s, t \in SubVals}
        \cup {Some(<<1, 0, 0, 2>>), Some(<<0, 1, 0, 2>>)}

\* substitutions of 0..3 elements, None, and one of 4 elements
Substitutions ==
    {None} \cup {Some(s) : s \in SeqsUpTo(SubVals, 3)}
           \cup {Some(<<0, 1, 2, 0>>)}

\* no call is recorded: the caller is between two calls
Idle == [op |-> "idle"]

\* the ids of the links of a store
Ids(d) == {d.links[i].id : i \in 1..Len(d.links)}

\* the callers that share the store in the interleaving specification
Callers == {1, 2}

\* the record of a caller that is in no call
NoCall ==
    [pc |-> "idle", op |-> "none", restriction |-> None, substitution |-> None,
     link |-> <<>>, actual |-> <<>>, ret |-> 0, err |-> NoError, changes |-> <<>>]

Init ==
    /\ db = EmptyDb
    /\ pre = EmptyDb
    /\ last = Idle
    /\ seen = {}
    /\ calls = [c \in Callers |-> NoCall]

Count(restriction) ==
    /\ last = Idle
    /\ db' = db
    /\ pre' = db
    /\ seen' = seen
    /\ calls' = calls
    /\ last' = [op |-> "count", restriction |-> restriction,
                ret |-> count(db, restriction)]

Each(restriction, handler, breakAt) ==
    LET r == each(db, restriction, handler, breakAt)
    IN  /\ last = Idle
        /\ (~handler => breakAt = 0)
        /\ db' = db
        /\ pre' = db
        /\ seen' = seen
        /\ calls' = calls
        /\ last' = [op |-> "each", restriction |-> restriction,
                    handler |-> handler, breakAt |-> breakAt,
                    ret |-> r.ret, visited |-> r.visited]

Create(substitution, handler) ==
    LET r == create(db, substitution, handler)
    IN  /\ last = Idle
        /\ r.db.nextId <= MaxLinks + 1
        /\ db' = r.db
        /\ pre' = db
        /\ seen' = seen
        /\ calls' = calls
        /\ last' = [op |-> "create", substitution |-> substitution,
                    handler |-> handler, ret |-> r.ret, err |-> r.err,
                    changes |-> r.changes]

Update(restriction, substitution, handler) ==
    LET r == update(db, restriction, substitution, handler)
    IN  /\ last = Idle
        /\ db' = r.db
        /\ pre' = db
        /\ seen' = seen
        /\ calls' = calls
        /\ last' = [op |-> "update", restriction |-> restriction,
                    substitution |-> substitution, handler |-> handler,
                    ret |-> r.ret, err |-> r.err, changes |-> r.changes]

Delete(restriction, handler) ==
    LET r == delete(db, restriction, handler)
    IN  /\ last = Idle
        /\ db' = r.db
        /\ pre' = db
        /\ seen' = seen
        /\ calls' = calls
        /\ last' = [op |-> "delete", restriction |-> restriction,
                    handler |-> handler, ret |-> r.ret, err |-> r.err,
                    changes |-> r.changes]

ReadAsNestedList(restriction) ==
    /\ last = Idle
    /\ db' = db
    /\ pre' = db
    /\ seen' = seen
    /\ calls' = calls
    /\ last' = [op |-> "read_as_nested_list", restriction |-> restriction,
                ret |-> read_as_nested_list(db, restriction)]

\* the caller has taken the outcome of the call: its record is dropped, and
\* the ids the store holds by now count as observed
Return ==
    /\ last # Idle
    /\ db' = db
    /\ pre' = db
    /\ seen' = seen \cup Ids(db)
    /\ calls' = calls
    /\ last' = Idle

Next ==
    \/ \E r \in Restrictions : Count(r)
    \/ \E r \in Restrictions, h \in BOOLEAN, k \in 0..(MaxLinks + 1) : Each(r, h, k)
    \/ \E s \in Substitutions, h \in BOOLEAN : Create(s, h)
    \/ \E r \in Restrictions, s \in Substitutions, h \in BOOLEAN : Update(r, s, h)
    \/ \E r \in Restrictions, h \in BOOLEAN : Delete(r, h)
    \/ \E r \in Restrictions : ReadAsNestedList(r)
    \/ Return

Spec == Init /\ [][Next]_vars

(***************************************************************************)
(* The builder specification: one caller issuing RecursiveLinks builder    *)
(* calls on a store that holds at most MaxBefore links it created earlier. *)
(***************************************************************************)
Pair(a, b) == PyList(<<PyInt(a), PyInt(b)>>)

\* the elements the nested lists handed to create_from_nested_list are made of
ListItems ==
    { PyInt(2), Pair(1, 2),
      PyList(<<Pair(2, 1), Pair(1, 2), PyInt(1)>>),
      PyList(<<PyInt(1)>>),
      PyList(<<Pair(1, 2), PyList(<<>>)>>) }

\* the lists of the tests, and one whose source has a list as its own source
NestedListExamples ==
    { <<Pair(1, 2), Pair(3, 4)>>,
      <<PyList(<<Pair(11, 12), PyInt(13)>>)>>,
      <<PyInt(7), PyList(<<PyList(<<Pair(2, 1), PyInt(3)>>), Pair(1, 2)>>),
        Pair(5, 6)>> }

NestedListInputs == SeqsUpTo(ListItems, MaxSeq) \cup NestedListExamples

Labeled(label, lst) == PyDict(<<label>>, <<PyList(lst)>>)

\* the elements the labeled lists handed to create_from_nested_dict are made of
SeqItems ==
    { PyInt(1), PyInt(2), Pair(1, 2), PyList(<<>>),
      Labeled("b", <<PyInt(1), PyInt(2)>>),
      PyDict(<<"b">>, <<PyInt(2)>>) }

\* the example of the class docstring and of the tests
ExampleDict ==
    Labeled("1", <<PyInt(1), Labeled("2", <<PyInt(5), PyInt(6)>>),
                   PyInt(3), PyInt(4)>>)

\* a labeled list whose nested map has a list that holds a further map
DeepDict ==
    Labeled("1", <<PyInt(1),
                   Labeled("2", <<PyInt(5), Labeled("3", <<PyInt(7), PyInt(8)>>),
                                  PyInt(6)>>),
                   PyInt(4)>>)

NestedDictInputs ==
    {Labeled("a", lst) : lst \in SeqsUpTo(SeqItems, MaxSeq)}
    \cup {PyDict(<<"a", "b">>, <<x, y>>) :
            x, y \in {PyInt(1), Pair(1, 2), PyList(<<>>), PyList(<<PyInt(1)>>),
                      PyList(<<PyInt(1), PyInt(2), PyInt(1)>>)}}
    \cup {PyDict(<<>>, <<>>), ExampleDict, DeepDict,
          Labeled("a", <<PyInt(3), PyInt(1), PyInt(4), PyInt(2)>>)}

CreateFromNestedList(nested_list) ==
    LET r == create_from_nested_list(db, nested_list)
    IN  /\ last = Idle
        /\ db.nextId <= MaxBefore + 1
        /\ db' = r.db
        /\ pre' = db
        /\ seen' = seen
        /\ calls' = calls
        /\ last' = [op |-> "create_from_nested_list",
                    input |-> PyList(nested_list), ret |-> r.ret, err |-> r.err]

CreateFromNestedDict(nested_dict) ==
    LET r == create_from_nested_dict(db, nested_dict)
    IN  /\ last = Idle
        /\ db.nextId <= MaxBefore + 1
        /\ db' = r.db
        /\ pre' = db
        /\ seen' = seen
        /\ calls' = calls
        /\ last' = [op |-> "create_from_nested_dict",
                    input |-> nested_dict, ret |-> r.ret, err |-> r.err]

\* a call begins when the caller is between two calls
BuilderNext ==
    \/ /\ last = Idle
       /\ \/ \E l \in NestedListInputs : CreateFromNestedList(l)
          \/ \E m \in NestedDictInputs : CreateFromNestedDict(m)
    \/ Return

SpecBuilder == Init /\ [][BuilderNext]_vars

(***************************************************************************)
(* The notation specification: nested lists are rendered, and the text is  *)
(* parsed back.                                                            *)
(***************************************************************************)
\* the ints of the nested lists: a negative one and one of two digits
NotationAtoms == {-3, 12}

\* the values of size k, and the sequences of values of total size n; an
\* int has size 1, a list the size of its elements plus 1
RECURSIVE ValuesOfSize(_)
RECURSIVE ListsOfSize(_)
ValuesOfSize(k) ==
    IF k = 1 THEN {PyInt(a) : a \in NotationAtoms} \cup {PyList(<<>>)}
    ELSE {PyList(l) : l \in ListsOfSize(k - 1)}

ListsOfSize(n) ==
    IF n = 0 THEN {<<>>}
    ELSE UNION {{<<v>> \o l : v \in ValuesOfSize(k), l \in ListsOfSize(n - k)} :
                    k \in 1..n}

\* the lists of the tests and of the docstrings
NotationExamples ==
    { <<Pair(1, 2), Pair(3, 4)>>, <<Pair(5, 6)>>,
      <<PyList(<<Pair(1, 2), PyInt(3)>>)>>,
      <<PyInt(1), PyInt(2), PyInt(3)>>,
      <<PyInt(0), PyInt(-10), PyInt(907)>>,
      <<PyList(<<Pair(1, 2), Pair(3, 4)>>), PyList(<<Pair(5, 6), Pair(7, 8)>>)>> }

NotationInputs ==
    UNION {ListsOfSize(n) : n \in 0..MaxSize} \cup NotationExamples

ToLinksNotation(nested_list) ==
    /\ last = Idle
    /\ UNCHANGED <<db, pre, seen, calls>>
    /\ last' = [op |-> "to_links_notation", input |-> nested_list,
                ret |-> to_links_notation(nested_list)]

\* the text just rendered is parsed
ParseLinksNotation ==
    /\ last.op = "to_links_notation"
    /\ UNCHANGED <<db, pre, seen, calls>>
    /\ LET r == parse_links_notation(last.ret)
       IN  last' = [op |-> "parse_links_notation", input |-> last.ret,
                    rendered |-> last.input, ret |-> r.ret, err |-> r.err]

\* the labeled maps that are rendered: those of the tests and of the
\* docstring, and maps with no list, with two labels, with a map as value
RefsInputs ==
    { ExampleDict,
      Labeled("1", <<PyInt(1), PyInt(2)>>),
      PyDict(<<>>, <<>>),
      PyDict(<<"a">>, <<PyInt(5)>>),
      PyDict(<<"a", "b">>, <<Pair(1, 2), PyList(<<PyInt(3)>>)>>),
      PyDict(<<"a">>, <<Labeled("b", <<PyInt(1), PyInt(2)>>)>>),
      Labeled("a", <<Pair(1, 2), PyInt(-3)>>) }

ToLinksNotationWithRefs(nested_dict) ==
    /\ last = Idle
    /\ UNCHANGED <<db, pre, seen, calls>>
    /\ last' = [op |-> "to_links_notation_with_refs", input |-> nested_dict,
                ret |-> to_links_notation_with_refs(nested_dict)]

\* the elements of the lists rendered with malformed tokens: ints, labels
\* and other strs that are no ints, lists of them
TokenItems ==
    { PyInt(1), PyInt(-3), PyStr(<<"1", ":">>), PyStr(<<":">>), Pair(1, 2),
      PyList(<<PyStr(<<"2", ":">>), PyInt(5), PyInt(6)>>), PyList(<<>>) }

\* the list rendered as the labeled form of the docstring, (1: 1 (2: 5 6) 3 4)
LabeledExample ==
    << PyStr(<<"1", ":">>), PyInt(1),
       PyList(<<PyStr(<<"2", ":">>), PyInt(5), PyInt(6)>>), PyInt(3), PyInt(4) >>

TokenInputs == SeqsUpTo(TokenItems, MaxSeq) \cup {LabeledExample}

\* the characters of the texts that are parsed
TextChars == {"1", "2", " ", "(", ")", ":"}

\* texts of the tests, and a token directly followed by a parenthesis
TextExamples ==
    { <<"(", "(", "1", " ", "2", ")", " ", "(", "3", " ", "4", ")", ")">>,
      <<"(", "1", " ", "2", " ", "3", ")">>,
      <<"1", "(", "2", " ", "3", ")">> }

TextInputs == SeqsUpTo(TextChars, MaxText) \cup TextExamples

\* parse_links_notation of the text of a list with malformed tokens
ParseLenient(given) ==
    LET text == to_links_notation(given)
        r == parse_links_notation(text)
    IN  /\ last = Idle
        /\ UNCHANGED <<db, pre, seen, calls>>
        /\ last' = [op |-> "parse_lenient", given |-> given, input |-> text,
                    ret |-> r.ret, err |-> r.err]

\* parse_links_notation of any text
ParseText(text) ==
    LET r == parse_links_notation(text)
    IN  /\ last = Idle
        /\ UNCHANGED <<db, pre, seen, calls>>
        /\ last' = [op |-> "parse_text", input |-> text,
                    ret |-> r.ret, err |-> r.err]

\* a call begins when the caller is between two calls
NotationNext ==
    \/ /\ last = Idle
       /\ \/ \E l \in NotationInputs : ToLinksNotation(l)
          \/ \E g \in TokenInputs : ParseLenient(g)
          \/ \E t \in TextInputs : ParseText(t)
          \/ \E m \in RefsInputs : ToLinksNotationWithRefs(m)
    \/ ParseLinksNotation
    \/ Return

SpecNotation == Init /\ [][NotationNext]_vars

(***************************************************************************)
(* The interleaving specification: two callers issue create, update and    *)
(* delete on one store. A call of the store (read_all_links, create_link,  *)
(* update_link, delete_link) is one step; update and delete are two: the   *)
(* read with the filter, and the mutation with the handler's call.         *)
(***************************************************************************)
RaceRestrictions == {None, Some(<<1>>), Some(<<1, 0>>), Some(<<0, 0, 1>>)}

RaceSubstitutions == {Some(<<0, 1>>), Some(<<0, 1, 0>>)}

RaceCreate(c, s, t) ==
    LET r == create(db, Some(<<s, t>>), FALSE)
    IN  /\ calls[c].pc = "idle"
        /\ r.db.nextId <= MaxLinks + 1
        /\ db' = r.db
        /\ UNCHANGED <<pre, last, seen, calls>>

\* update or delete of caller c runs up to its read of the store
RaceLocate(c, op, restriction, substitution) ==
    LET loc == IF op = "update"
               THEN update_locate(db, restriction, substitution)
               ELSE delete_locate(db, restriction)
    IN  /\ calls[c].pc = "idle"
        /\ calls' = [calls EXCEPT ![c] =
                        [NoCall EXCEPT
                            !.pc = IF loc.err = NoError THEN "located" ELSE "done",
                            !.op = op,
                            !.restriction = restriction,
                            !.substitution = substitution,
                            !.link = loc.link,
                            !.err = loc.err]]
        /\ UNCHANGED <<db, pre, last, seen>>

\* update or delete of caller c runs from its mutation of the store on;
\* actual records the store's link of the located id just before it
RaceMutate(c) ==
    LET call == calls[c]
        out == IF call.op = "update"
               THEN update_mutate(db, call.link[1], call.substitution, TRUE)
               ELSE delete_mutate(db, call.link[1], TRUE)
    IN  /\ call.pc = "located"
        /\ db' = out.db
        /\ calls' = [calls EXCEPT ![c] =
                        [call EXCEPT
                            !.pc = "done",
                            !.actual = SelectSeq(db.links,
                                           LAMBDA l : l.id = call.link[1].id),
                            !.ret = out.ret,
                            !.err = out.err,
                            !.changes = out.changes]]
        /\ UNCHANGED <<pre, last, seen>>

\* caller c has taken the outcome of its call
RaceReturn(c) ==
    /\ calls[c].pc = "done"
    /\ calls' = [calls EXCEPT ![c] = NoCall]
    /\ UNCHANGED <<db, pre, last, seen>>

RaceNext ==
    \E c \in Callers :
        \/ \E s, t \in SubVals : RaceCreate(c, s, t)
        \/ \E r \in RaceRestrictions, s \in RaceSubstitutions :
                RaceLocate(c, "update", r, s)
        \/ \E r \in RaceRestrictions : RaceLocate(c, "delete", r, None)
        \/ RaceMutate(c)
        \/ RaceReturn(c)

SpecRace == Init /\ [][RaceNext]_vars

(***************************************************************************)
(* The claims about the flat API.                                          *)
(***************************************************************************)
\* the fields a restriction constrains, by its arity
RestrictedFields(r) ==
    IF Len(r) = 1 THEN <<"id">>
    ELSE IF Len(r) = 2 THEN <<"source", "target">>
    ELSE <<"id", "source", "target">>

\* a link matches when every restricted field equals the restriction value
\* or the restriction value is 0
Matches(link, restriction) ==
    \/ Falsy(restriction)
    \/ LET r == restriction.items
           f == RestrictedFields(r)
       IN  \A i \in 1..Len(f) : r[i] = 0 \/ link[f[i]] = r[i]

\* the positions of the store's links that match
MatchingAt(d, restriction) ==
    {i \in 1..Len(d.links) : Matches(d.links[i], restriction)}

\* the matching links, in store order
MatchingLinks(d, restriction) ==
    SelectSeq(d.links, LAMBDA link : Matches(link, restriction))

\* the position of the first link that matches (there is one)
FirstMatch(d, restriction) ==
    CHOOSE i \in MatchingAt(d, restriction) :
        \A j \in MatchingAt(d, restriction) : i <= j

\* a sequence without its i-th element
Without(seq, i) == SubSeq(seq, 1, i - 1) \o SubSeq(seq, i + 1, Len(seq))

\* C1: count(restriction) is the number of links whose every restricted
\* field equals the restriction value or has restriction value 0; with no
\* restriction it is the total number of links.
C1_CountIsNumberOfMatches ==
    last.op = "count" =>
        /\ last.ret = Cardinality(MatchingAt(pre, last.restriction))
        /\ Falsy(last.restriction) => last.ret = Len(pre.links)

C1_Witness ==
    /\ last.op = "count"
    /\ last.restriction = Some(<<0, 1, 0>>)
    /\ Len(db.links) = 2
    /\ last.ret = 1

\* C2: create with a 3-element substitution [_, source, target] creates a
\* link whose source is the second element and whose target is the third.
C2_CreateOfThreeUsesSecondAndThird ==
    (last.op = "create" /\ last.err = NoError
        /\ Len(last.substitution.items) = 3) =>
        LET new == db.links[Len(db.links)]
        IN  /\ new.source = last.substitution.items[2]
            /\ new.target = last.substitution.items[3]

\* C3: create([s, t]) returns an id never observed before, count() grows by
\* exactly 1, the new link has source s and target t, and the handler (if
\* given) receives Change(None, new link) whose after.id is the returned id.
C3_CreateAddsOneFreshLink ==
    (last.op = "create" /\ last.err = NoError
        /\ Len(last.substitution.items) = 2) =>
        LET s == last.substitution.items[1]
            t == last.substitution.items[2]
            new == Link(last.ret, s, t)
        IN  /\ last.ret \notin seen \cup Ids(pre)
            /\ last.ret > 0
            /\ count(db, None) = count(pre, None) + 1
            /\ db.links = Append(pre.links, new)
            /\ count(db, Some(<<last.ret, s, t>>)) = 1
            /\ last.changes = IF last.handler
                              THEN <<Change(<<>>, <<new>>)>> ELSE <<>>

C3_Witness ==
    /\ last.op = "create" /\ last.err = NoError
    /\ last.substitution = Some(<<1, 0>>)
    /\ last.handler
    /\ Len(pre.links) = 0
    /\ seen # {}

\* C4: update with at least one match changes the first matching link: its
\* id is unchanged, its source and target become the substitution's, the
\* returned id is its id, and the handler receives its state before and
\* after the call.
C4_UpdateChangesFirstMatch ==
    (last.op = "update" /\ last.err = NoError
        /\ Len(last.substitution.items) \in {2, 3}) =>
        LET i == FirstMatch(pre, last.restriction)
            sub == last.substitution.items
            s2 == IF Len(sub) = 2 THEN sub[1] ELSE sub[2]
            t2 == IF Len(sub) = 2 THEN sub[2] ELSE sub[3]
            old == pre.links[i]
        IN  /\ MatchingAt(pre, last.restriction) # {}
            /\ Len(db.links) = Len(pre.links)
            /\ db.links[i] = Link(old.id, s2, t2)
            /\ last.ret = old.id
            /\ last.changes = IF last.handler
                              THEN <<Change(<<old>>, <<db.links[i]>>)>>
                              ELSE <<>>

C4_Witness ==
    /\ last.op = "update" /\ last.err = NoError
    /\ last.substitution = Some(<<0, 1, 0>>)
    /\ last.handler
    /\ Cardinality(MatchingAt(pre, last.restriction)) = 1
    /\ FirstMatch(pre, last.restriction) = 2
    /\ db # pre

\* C5: a failing create, update or delete (substitution too short, no
\* restriction, or no match) raises, calls no handler and leaves the store
\* and count() as they were.
C5_Fails ==
    \/ /\ last.op = "create"
       /\ (Falsy(last.substitution) \/ Len(last.substitution.items) < 2)
    \/ /\ last.op \in {"update", "delete"}
       /\ (Falsy(last.restriction) \/ MatchingAt(pre, last.restriction) = {})

C5_FailureChangesNothing ==
    /\ C5_Fails =>
        /\ last.err # NoError
        /\ db = pre
        /\ last.changes = <<>>
        /\ count(db, None) = count(pre, None)
    /\ (last.op \in {"create", "update", "delete"} /\ last.err # NoError) =>
        /\ db = pre
        /\ last.changes = <<>>

C5_Witness ==
    /\ last.op = "delete"
    /\ last.restriction = None
    /\ last.handler
    /\ last.err # NoError
    /\ Len(db.links) = 2

\* C6: update and delete affect only the first matching link, even when
\* several match: delete removes exactly it (count() drops by 1,
\* count([id, 0, 0]) becomes 0, the handler gets Change(old, None), its id is
\* returned); update keeps count(); every other link is unchanged.
C6_OnlyFirstMatchAffected ==
    /\ (last.op = "delete" /\ last.err = NoError) =>
        LET i == FirstMatch(pre, last.restriction)
            old == pre.links[i]
        IN  /\ db.links = Without(pre.links, i)
            /\ count(db, None) = count(pre, None) - 1
            /\ count(db, Some(<<old.id, 0, 0>>)) = 0
            /\ last.ret = old.id
            /\ last.changes = IF last.handler
                              THEN <<Change(<<old>>, <<>>)>> ELSE <<>>
    /\ (last.op = "update" /\ last.err = NoError) =>
        LET i == FirstMatch(pre, last.restriction)
        IN  /\ count(db, None) = count(pre, None)
            /\ \A j \in 1..Len(pre.links) : j # i => db.links[j] = pre.links[j]

C6_Witness ==
    /\ last.op = "delete" /\ last.err = NoError
    /\ Cardinality(MatchingAt(pre, last.restriction)) = 2
    /\ Len(last.restriction.items) = 2
    /\ Len(db.links) = 1
    /\ db.links[1].id = 2

\* C7: each calls the visitor on the matching links in store order; a Break
\* on the k-th call ends it with exactly k links visited and Break returned;
\* without a Break every matching link is visited once and Continue is
\* returned; without a visitor nothing is visited and Continue is returned.
C7_EachVisitsInOrderUntilBreak ==
    last.op = "each" =>
        LET m == MatchingLinks(pre, last.restriction)
            k == last.breakAt
        IN  /\ db = pre
            /\ IF ~last.handler
               THEN last.visited = <<>> /\ last.ret = CONTINUE
               ELSE IF k \in 1..Len(m)
               THEN last.visited = SubSeq(m, 1, k) /\ last.ret = BREAK
               ELSE last.visited = m /\ last.ret = CONTINUE

C7_Witness ==
    /\ last.op = "each"
    /\ last.handler
    /\ last.breakAt = 1
    /\ last.ret = BREAK
    /\ Len(MatchingLinks(pre, last.restriction)) = 2
    /\ Len(pre.links) = 2
    /\ Len(last.restriction.items) = 3

\* C16: read_as_nested_list(restriction) returns, in store order, exactly
\* one [source, target] pair for each link matching the restriction (ids are
\* distinct), so its length is count(restriction), and leaves the store
\* unchanged.
C16_ReadIsFlatProjection ==
    last.op = "read_as_nested_list" =>
        LET m == MatchingLinks(pre, last.restriction)
        IN  /\ db = pre
            /\ last.ret = [k \in 1..Len(m) |-> <<m[k].source, m[k].target>>]
            /\ Len(last.ret) = count(pre, last.restriction)
            /\ Cardinality(Ids(pre)) = Len(pre.links)

C16_Witness ==
    /\ last.op = "read_as_nested_list"
    /\ last.restriction = Some(<<2, 0, 0>>)
    /\ Len(pre.links) = 2
    /\ pre.links[1].source # pre.links[2].source
    /\ last.ret = <<<<pre.links[2].source, pre.links[2].target>>>>

\* C18: update and delete are a read with the filter followed by a separate
\* mutation of the store with no revalidation: the mutation is applied to
\* the id located by the read and the handler's 'before' is the link as
\* read, whatever the store holds by then; with two callers interleaving
\* the located match can be stale at mutation time (C18_Witness).
C18_MutationUsesMatchAsRead ==
    \A c \in Callers :
        (calls[c].pc = "done" /\ calls[c].err = NoError) =>
            LET call == calls[c]
                located == call.link[1]
                sub == call.substitution.items
                s2 == IF Len(sub) = 2 THEN sub[1] ELSE sub[2]
                t2 == IF Len(sub) = 2 THEN sub[2] ELSE sub[3]
            IN  /\ Len(call.link) = 1
                /\ Matches(located, call.restriction)
                /\ call.ret = located.id
                /\ call.changes =
                        IF call.op = "update"
                        THEN <<Change(<<located>>, <<Link(located.id, s2, t2)>>)>>
                        ELSE <<Change(<<located>>, <<>>)>>

\* an update has overwritten a link that no longer matched its restriction,
\* the handler's 'before' differing from the link's state before the mutation
C18_Witness ==
    \E c \in Callers :
        /\ calls[c].pc = "done" /\ calls[c].err = NoError
        /\ calls[c].op = "update"
        /\ Len(calls[c].actual) = 1
        /\ calls[c].actual[1] # calls[c].changes[1].before[1]
        /\ ~Matches(calls[c].actual[1], calls[c].restriction)
        /\ \E i \in 1..Len(db.links) :
                db.links[i] = calls[c].changes[1].after[1]

(***************************************************************************)
(* The claims about the builder.                                           *)
(***************************************************************************)
BuilderCall == last.op \in {"create_from_nested_list", "create_from_nested_dict"}

\* the exceptions the builder raises for a malformed argument
InvalidArgument ==
    { "List items must have at least 2 elements [source, target]",
      "Cannot create sequence from empty list" }

\* the links the last call added, in order
Added == SubSeq(db.links, Len(pre.links) + 1, Len(db.links))

\* C8: a builder call that fails with InvalidArgument is aborted with no
\* partial mutation: the store holds exactly the links it held before.
C8_FailedBuildLeavesStore ==
    (BuilderCall /\ last.err \in InvalidArgument) => db.links = pre.links

\* C9 as stated: the example adds exactly 3 links and maps "1" and "2" to
\* positive ids.
C9_ExampleAddsThreeLinks ==
    (last.op = "create_from_nested_dict" /\ last.input = ExampleDict) =>
        /\ last.err = NoError
        /\ {last.ret.keys[i] : i \in 1..Len(last.ret.keys)} = {"1", "2"}
        /\ \A i \in 1..Len(last.ret.vals) : last.ret.vals[i] > 0
        /\ Len(db.links) = Len(pre.links) + 3

\* C9 (amended): create_from_nested_dict({"1": [1, {"2": [5, 6]}, 3, 4]})
\* returns a reference map with keys "1" and "2" mapped to positive ids and
\* adds exactly 4 links: the base pair (5, 6) for "2", then the chain links
\* (1, ref2), (that link, 3), (that link, 4), the last being "1".
C9_ExampleAddsFourLinks ==
    (last.op = "create_from_nested_dict" /\ last.input = ExampleDict) =>
        /\ last.err = NoError
        /\ {last.ret.keys[i] : i \in 1..Len(last.ret.keys)} = {"1", "2"}
        /\ Len(last.ret.keys) = 2
        /\ \A i \in 1..Len(last.ret.vals) : last.ret.vals[i] > 0
        /\ Len(db.links) = Len(pre.links) + 4
        /\ SubSeq(db.links, 1, Len(pre.links)) = pre.links
        /\ LET a == Added
               ref(k) == last.ret.vals[CHOOSE i \in 1..2 : last.ret.keys[i] = k]
           IN  /\ a[1].source = 5 /\ a[1].target = 6
               /\ a[2].source = 1 /\ a[2].target = a[1].id
               /\ a[3].source = a[2].id /\ a[3].target = 3
               /\ a[4].source = a[3].id /\ a[4].target = 4
               /\ ref("2") = a[1].id
               /\ ref("1") = a[4].id
               /\ Cardinality({a[i].id : i \in 1..4} \cup Ids(pre))
                    = 4 + Len(pre.links)

C9_Witness ==
    /\ last.op = "create_from_nested_dict"
    /\ last.input = ExampleDict
    /\ last.err = NoError
    /\ Len(pre.links) = 1

\* a list item that create_from_nested_list accepts: at least 2 entries, and
\* a list-valued source or target is accepted in turn
RECURSIVE WellFormed(_)
WellFormed(item) ==
    /\ item.kind = "list"
    /\ Len(item.items) >= 2
    /\ \A i \in 1..2 : item.items[i].kind = "list" => WellFormed(item.items[i])

\* an end of a link that is expected: the id of the p-th added link when
\* linked, the scalar v else
End(linked, p, v) == [linked |-> linked, pos |-> p, val |-> v]

\* the links expected for a well-formed item when p links were added before
\* it: those of a list-valued source, then those of a list-valued target,
\* then the link of the item itself
RECURSIVE Shape(_, _)
Shape(item, p) ==
    LET source == item.items[1]
        target == item.items[2]
        S == IF source.kind = "list" THEN Shape(source, p) ELSE <<>>
        T == IF target.kind = "list" THEN Shape(target, p + Len(S)) ELSE <<>>
    IN  S \o T \o
        << [source |-> End(source.kind = "list", p + Len(S), source.val),
            target |-> End(target.kind = "list", p + Len(S) + Len(T), target.val)] >>

\* the links expected for the items from the i-th on
RECURSIVE ShapeAll(_, _, _)
ShapeAll(items, i, p) ==
    IF i > Len(items) THEN <<>>
    ELSE IF items[i].kind # "list" THEN ShapeAll(items, i + 1, p)
    ELSE LET own == Shape(items[i], p)
         IN  own \o ShapeAll(items, i + 1, p + Len(own))

\* the positions, among the added links, of the links of the items themselves
RECURSIVE OwnPositions(_, _, _)
OwnPositions(items, i, p) ==
    IF i > Len(items) THEN <<>>
    ELSE IF items[i].kind # "list" THEN OwnPositions(items, i + 1, p)
    ELSE LET n == Len(Shape(items[i], p))
         IN  <<p + n>> \o OwnPositions(items, i + 1, p + n)

\* an added link has the expected end
EndIs(a, value, end) ==
    IF end.linked THEN value = a[end.pos].id ELSE value = end.val

\* C13: create_from_nested_list(items) returns exactly one id per element of
\* items that is a list of >= 2 entries, in item order; for each such element
\* the links of a list-valued source are created first, then those of a
\* list-valued target, then link(resolved source, resolved target), a
\* list-valued end resolving to the id of the link created for it; non-list
\* elements create no link and do not fail the call.
C13_NestedListPreOrder ==
    (/\ last.op = "create_from_nested_list"
     /\ \A i \in 1..Len(last.input.items) :
            last.input.items[i].kind = "list" => WellFormed(last.input.items[i])) =>
        LET items == last.input.items
            shape == ShapeAll(items, 1, 0)
            own == OwnPositions(items, 1, 0)
            a == Added
        IN  /\ last.err = NoError
            /\ SubSeq(db.links, 1, Len(pre.links)) = pre.links
            /\ Len(a) = Len(shape)
            /\ \A k \in 1..Len(shape) :
                    /\ EndIs(a, a[k].source, shape[k].source)
                    /\ EndIs(a, a[k].target, shape[k].target)
            /\ Len(last.ret) =
                    Cardinality({i \in 1..Len(items) : items[i].kind = "list"})
            /\ last.ret = [j \in 1..Len(own) |-> a[own[j]].id]

C13_Witness ==
    /\ last.op = "create_from_nested_list"
    /\ last.input =
            PyList(<<PyInt(7), PyList(<<PyList(<<Pair(2, 1), PyInt(3)>>), Pair(1, 2)>>),
                     Pair(5, 6)>>)
    /\ last.err = NoError
    /\ Len(pre.links) = 1
    /\ Len(Added) = 5
    /\ last.ret = <<Added[4].id, Added[5].id>>

\* the call built one labeled list whose elements are all scalars
ScalarSequenceCall ==
    /\ last.op = "create_from_nested_dict"
    /\ Len(last.input.keys) = 1
    /\ last.input.items[1].kind = "list"
    /\ \A i \in 1..Len(last.input.items[1].items) :
            last.input.items[1].items[i].kind = "int"

\* C12: building a labeled list of n >= 3 scalars e0..e(n-1) creates exactly
\* n-1 links in this order: link(e0, e1), then for each k >= 2
\* link(id of the previously created link, ek); the id recorded for the label
\* is the id of the last link created.
C12_LeftAssociatedChain ==
    (ScalarSequenceCall /\ Len(last.input.items[1].items) >= 3) =>
        LET e == last.input.items[1].items
            n == Len(e)
            a == Added
        IN  /\ last.err = NoError
            /\ SubSeq(db.links, 1, Len(pre.links)) = pre.links
            /\ Len(a) = n - 1
            /\ a[1].source = e[1].val /\ a[1].target = e[2].val
            /\ \A k \in 2..(n - 1) :
                    a[k].source = a[k - 1].id /\ a[k].target = e[k + 1].val
            /\ last.ret = [keys |-> last.input.keys, vals |-> <<a[n - 1].id>>]

C12_Witness ==
    /\ ScalarSequenceCall
    /\ last.input = Labeled("a", <<PyInt(3), PyInt(1), PyInt(4), PyInt(2)>>)
    /\ Len(pre.links) = 1
    /\ Len(db.links) = 4
    /\ last.ret.vals = <<db.links[4].id>>

\* a labeled map with a value that is no list occurs in v
RECURSIVE HasNonListValue(_)
HasNonListValue(v) ==
    \/ /\ v.kind = "dict"
       /\ \E i \in 1..Len(v.items) : v.items[i].kind # "list"
    \/ \E i \in 1..Len(v.items) : HasNonListValue(v.items[i])

\* no empty list occurs in v
RECURSIVE NoEmptyList(_)
NoEmptyList(v) ==
    /\ v.kind = "list" => Len(v.items) > 0
    /\ \A i \in 1..Len(v.items) : NoEmptyList(v.items[i])

\* the top-level labels of a map whose values are lists, in order
ListLabels(m) ==
    SelectSeq(m.keys, LAMBDA k :
        \E i \in 1..Len(m.keys) : m.keys[i] = k /\ m.items[i].kind = "list")

\* C14: a non-list value met while building from a labeled map is skipped and
\* never aborts the operation: create_from_nested_dict returns normally,
\* recording no id for that label, for every map containing non-list values,
\* also when a map with only non-list values is an element of a labeled list.
C14_NonListValueNeverAborts ==
    (/\ last.op = "create_from_nested_dict"
     /\ HasNonListValue(last.input)
     /\ NoEmptyList(last.input)) =>
        /\ last.err = NoError
        /\ \A i \in 1..Len(last.input.keys) :
                last.input.items[i].kind # "list" =>
                    \A j \in 1..Len(last.ret.keys) :
                        last.ret.keys[j] # last.input.keys[i]

\* C19: every link created by create_from_nested_dict has an integer source
\* and an integer target (a scalar of the input or the id of a link), never
\* a nested list or map, also for a two-element list one of whose elements
\* is itself a list.
C19_CreatedLinksHaveIntegerEnds ==
    last.op = "create_from_nested_dict" =>
        \A k \in 1..Len(Added) :
            Added[k].source # NonInteger /\ Added[k].target # NonInteger

\* C20: every value in the reference map returned by create_from_nested_dict
\* is the id of a link that is in the store after the call and was created
\* by that call, also for a one-element list such as {"a": [7]}.
C20_ReferencesAreCreatedLinks ==
    (last.op = "create_from_nested_dict" /\ last.err = NoError) =>
        \A i \in 1..Len(last.ret.vals) :
            /\ last.ret.vals[i] \in {Added[k].id : k \in 1..Len(Added)}
            /\ last.ret.vals[i] \notin Ids(pre)

\* the labels of the maps that occur in v, at every depth, in order
RECURSIVE LabelsFrom(_, _)
LabelsFrom(v, i) ==
    IF i > Len(v.items) THEN <<>>
    ELSE (IF v.kind = "dict" THEN <<v.keys[i]>> ELSE <<>>)
            \o LabelsFrom(v.items[i], 1) \o LabelsFrom(v, i + 1)

\* no label occurs twice in v
DistinctLabels(v) ==
    LET labels == LabelsFrom(v, 1)
    IN  Cardinality({labels[i] : i \in 1..Len(labels)}) = Len(labels)

\* the call built one labeled list that begins with a scalar followed by a
\* labeled map whose first value is a list, no label occurring twice
MapInSequenceCall ==
    /\ last.op = "create_from_nested_dict"
    /\ last.err = NoError
    /\ DistinctLabels(last.input)
    /\ Len(last.input.keys) = 1
    /\ last.input.items[1].kind = "list"
    /\ Len(last.input.items[1].items) >= 2
    /\ last.input.items[1].items[1].kind = "int"
    /\ last.input.items[1].items[2].kind = "dict"
    /\ Len(last.input.items[1].items[2].keys) >= 1
    /\ last.input.items[1].items[2].items[1].kind = "list"

\* the id the returned reference map records under a label
RefOf(label) ==
    last.ret.vals[CHOOSE i \in 1..Len(last.ret.keys) : last.ret.keys[i] = label]

\* C21: when a labeled map is an element of a sequence, the value chained
\* into the sequence for it is the id the returned reference map records
\* under that map's first label, also when that label's list holds a
\* further labeled map: the link created right after the links of the map
\* is link(scalar before the map, id of the first label).
C21_ChainsIdOfFirstLabel ==
    MapInSequenceCall =>
        LET seq == last.input.items[1].items
            first_label == seq[2].keys[1]
            of_map == Len(create_from_nested_dict(pre, seq[2]).db.links)
                        - Len(pre.links)
            a == Added
        IN  /\ \E i \in 1..Len(last.ret.keys) : last.ret.keys[i] = first_label
            /\ Len(a) > of_map
            /\ a[of_map + 1].source = seq[1].val
            /\ a[of_map + 1].target = RefOf(first_label)

(***************************************************************************)
(* The claims about the notation.                                          *)
(***************************************************************************)
\* C10: for every nested list L of integers,
\* parse_links_notation(to_links_notation(L)) = L.
C10_RoundTrip ==
    (last.op = "parse_links_notation") =>
        /\ last.err = NoError
        /\ last.ret = last.rendered

C10_Witness ==
    /\ last.op = "parse_links_notation"
    /\ last.rendered = <<PyList(<<PyInt(-3), PyList(<<PyInt(12)>>)>>), PyList(<<>>)>>
    /\ last.input = <<"(", "(", "-", "3", " ", "(", "1", "2", ")", ")", " ",
                      "(", ")", ")">>
    /\ last.ret = last.rendered

\* C11: to_links_notation_with_refs({"1": [1, {"2": [5, 6]}, 3, 4]}) returns
\* exactly the string "(1: 1 (2: 5 6) 3 4)".
C11_ExampleRendersAsDocumented ==
    (last.op = "to_links_notation_with_refs" /\ last.input = ExampleDict) =>
        last.ret = <<"(", "1", ":", " ", "1", " ", "(", "2", ":", " ", "5", " ",
                     "6", ")", " ", "3", " ", "4", ")">>

\* a list without its strs, at every depth
RECURSIVE WithoutStrs(_)
WithoutStrs(items) ==
    IF Len(items) = 0 THEN <<>>
    ELSE LET head == items[1]
             rest == WithoutStrs(Tail(items))
         IN  IF head.kind = "str" THEN rest
             ELSE IF head.kind = "list"
             THEN <<PyList(WithoutStrs(head.items))>> \o rest
             ELSE <<head>> \o rest

\* the tokens of a text: its maximal runs of characters other than spaces
RECURSIVE TokensFrom(_, _, _)
TokensFrom(text, i, token) ==
    IF i > Len(text) THEN (IF token = <<>> THEN <<>> ELSE <<token>>)
    ELSE IF text[i] # " " THEN TokensFrom(text, i + 1, Append(token, text[i]))
    ELSE IF token = <<>> THEN TokensFrom(text, i + 1, <<>>)
    ELSE <<token>> \o TokensFrom(text, i + 1, <<>>)

\* a token made of digits only
AllDigits(token) == \A i \in 1..Len(token) : IsDigit(token[i])

\* the atoms of the tokens of a text that are made of digits, in order
AtomsOf(text) ==
    LET ints == SelectSeq(TokensFrom(text, 1, <<>>), AllDigits)
    IN  [k \in 1..Len(ints) |-> PyInt(int_nat(ints[k]))]

NoParenthesis(text) == \A i \in 1..Len(text) : text[i] \notin {"(", ")"}

\* C15: parse_links_notation does not raise on a malformed token: every
\* space-delimited token that is no integer literal (a label such as '1:')
\* is dropped, no atom is emitted for it, and all other atoms and nested
\* lists are returned in their left-to-right order.
C15_MalformedTokensDropped ==
    /\ last.op = "parse_lenient" =>
        /\ last.err = NoError
        /\ last.ret = WithoutStrs(last.given)
    /\ (last.op = "parse_text" /\ NoParenthesis(last.input)) =>
        /\ last.err = NoError
        /\ last.ret = AtomsOf(last.input)

C15_Witness ==
    /\ last.op = "parse_lenient"
    /\ last.given = LabeledExample
    /\ last.input = <<"(", "1", ":", " ", "1", " ", "(", "2", ":", " ", "5", " ",
                       "6", ")", " ", "3", " ", "4", ")">>
    /\ last.ret = <<PyInt(1), Pair(5, 6), PyInt(3), PyInt(4)>>

\* C17: parse_links_notation runs to completion on every text over digits,
\* spaces, '(' and ')': the recursion on an accumulated parenthesized
\* substring is always on a strictly shorter text, never on the argument
\* itself, also when a token is directly followed by '(' and when the
\* parentheses are unbalanced.
C17_ParseRecursesOnShorterText ==
    (/\ last.op = "parse_text"
     /\ \A i \in 1..Len(last.input) :
            IsDigit(last.input[i]) \/ last.input[i] \in {" ", "(", ")"}) =>
        last.err # "RecursionError"

====
